---- MODULE Spec2Model ----
(***************************************************************************)
(* Model of the two table computations of the repository:                  *)
(*   compute_bank_biodiversity_footprint  (src/biodiversity_footprint.py)  *)
(*   compute_dependencies                 (src/dependency.py)              *)
(* Tables are sequences of rows, a row is a record, a (country, sector)    *)
(* key is a pair of strings.  A float cell is <<v>> with v an exact number *)
(* or NaN == <<>>, so that missing values left by a left join flow through *)
(* the arithmetic the way pandas lets them.  Footprint numbers are         *)
(* integers, dependency scores are exact fractions <<num, den>>.           *)
(***************************************************************************)
EXTENDS Integers, Sequences, FiniteSets, TLC

VARIABLES
    pc,                       \* "call" before the function runs, "returned" / "raised" after
    loan_data,                \* footprint input: rows bank_id, firm_id, loan_amount
    firm_info,                \* footprint input: rows firm_id, country, sector
    direct_intensity_vector,  \* footprint input: rows key, msa_ghg_per_eur, msa_lu_per_eur
    leontief_inverse,         \* input of both: [index, columns, values]
    df,                       \* footprint: the exposure table after the last merge
    indirect_df,              \* footprint: per-key total intensities
    bank_fp,                  \* footprint: the returned bank table
    firms,                    \* dependencies input: rows firm_id, country, sector
    encore_ds_direct,         \* dependencies input: rows key, score (service -> fraction)
    results                   \* dependencies: the returned rows

vars == <<pc, loan_data, firm_info, direct_intensity_vector, leontief_inverse,
          df, indirect_df, bank_fp, firms, encore_ds_direct, results>>

-----------------------------------------------------------------------------
(* Bounds of the input universe *)

MaxVal == 1      \* direct ghg intensities range over 0..MaxVal
MaxL == 1        \* Leontief entries range over 0..MaxL
MaxLoans == 2    \* rows of loan_data
MaxFirms == 2    \* rows of firms

\* The keys the tables are indexed by
SectorKeys == {<<"DE", "A">>, <<"FR", "B">>}
banks == {"BANK_0", "BANK_1"}
LuValues == {0, 1}
Amounts == {1, 2}

-----------------------------------------------------------------------------
(* Floats with missing values *)

NaN == <<>>
isna(x) == x = NaN
F(v) == <<v>>
FMul(a, b) == IF isna(a) \/ isna(b) THEN NaN ELSE <<a[1] * b[1]>>
FAdd(a, b) == IF isna(a) \/ isna(b) THEN NaN ELSE <<a[1] + b[1]>>

RECURSIVE np_sum(_)
\* numpy's sum of a sequence of floats: a NaN poisons it
np_sum(s) == IF s = <<>> THEN F(0) ELSE FAdd(Head(s), np_sum(Tail(s)))

RECURSIVE pd_sum(_)
\* pandas' sum (skipna=True, min_count=0): missing values are skipped
pd_sum(s) ==
    IF s = <<>> THEN F(0)
    ELSE IF isna(Head(s)) THEN pd_sum(Tail(s))
         ELSE FAdd(Head(s), pd_sum(Tail(s)))

-----------------------------------------------------------------------------
(* Table helpers *)

Range(s) == {s[i] : i \in 1..Len(s)}
column(t, c) == [i \in 1..Len(t) |-> t[i][c]]

RECURSIVE merge(_, _, _, _)
\* DataFrame.merge(right, on=on, how='left'): each left row is paired with
\* every right row of equal key; with none it is kept, the right-hand
\* columns missing.
merge(left, right, on, missing) ==
    IF left = <<>> THEN <<>>
    ELSE LET l == Head(left)
             m == SelectSeq(right, LAMBDA r : r[on] = l[on])
             rows == IF m = <<>> THEN <<missing @@ l>>
                     ELSE [i \in 1..Len(m) |-> m[i] @@ l]
         IN rows \o merge(Tail(left), right, on, missing)

\* position of label k in an index, 0 when absent
get_loc(index, k) ==
    IF \E i \in 1..Len(index) : index[i] = k
    THEN CHOOSE i \in 1..Len(index) : index[i] = k
    ELSE 0

-----------------------------------------------------------------------------
(* compute_bank_biodiversity_footprint *)

\* np.diag(v): v on the diagonal, by position
np_diag(v) == [i \in 1..Len(v) |-> [j \in 1..Len(v) |-> IF i = j THEN v[i] ELSE F(0)]]

\* L used where L.T is meant
NotTransposed(L) == L

\* L.T: index and columns swapped, values transposed
T(L) == [index   |-> L.columns,
         columns |-> L.index,
         values  |-> [i \in 1..Len(L.columns) |->
                        [j \in 1..Len(L.index) |-> L.values[j][i]]]]

\* DataFrame.dot(ndarray) refuses operands whose inner dimensions differ
dot_shape_mismatch(A, B) == Len(A.columns) # Len(B)

\* DataFrame @ ndarray: the matrix product of the values; the left index is
\* kept, the columns become the positions 1..n
matmul(A, B) ==
    LET n == IF B = <<>> THEN 0 ELSE Len(B[1])
    IN [index  |-> A.index,
        values |-> [i \in 1..Len(A.index) |->
                      [j \in 1..n |->
                         np_sum([m \in 1..Len(B) |-> FMul(A.values[i][m], B[m][j])])]]]

\* DataFrame.sum(axis=1): a Series over the frame's index
sum_axis1(D) == [index |-> D.index, values |-> [i \in 1..Len(D.index) |-> pd_sum(D.values[i])]]

\* pd.Series(series, index=index): the series re-indexed by label
Series(s, index) ==
    [i \in 1..Len(index) |->
        IF get_loc(s.index, index[i]) = 0 THEN NaN
        ELSE s.values[get_loc(s.index, index[i])]]

\* lines 40-49 for one pressure column
indirect(direct, L, col) ==
    Series(sum_axis1(matmul(T(L), np_diag(column(direct, col)))), L.index)

\* lines 51-55
IndirectDf(direct, L) ==
    LET g == indirect(direct, L, "msa_ghg_per_eur")
        l == indirect(direct, L, "msa_lu_per_eur")
    IN [i \in 1..Len(L.index) |->
          [key |-> L.index[i], msa_ghg_total_per_eur |-> g[i], msa_lu_total_per_eur |-> l[i]]]

NoFirm == [country |-> "NaN", sector |-> "NaN"]
NoDirect == [msa_ghg_per_eur |-> NaN, msa_lu_per_eur |-> NaN]
NoTotal == [msa_ghg_total_per_eur |-> NaN, msa_lu_total_per_eur |-> NaN]

\* lines 26-36: the exposures with firm metadata, key and direct footprint
DirectDf(loans, info, direct) ==
    LET m1 == merge(loans, info, "firm_id", NoFirm)
        k  == [i \in 1..Len(m1) |-> [key |-> <<m1[i].country, m1[i].sector>>] @@ m1[i]]
        m2 == merge(k, direct, "key", NoDirect)
    IN [i \in 1..Len(m2) |->
          [msa_ghg_direct |-> FMul(m2[i].msa_ghg_per_eur, m2[i].loan_amount),
           msa_lu_direct  |-> FMul(m2[i].msa_lu_per_eur, m2[i].loan_amount)] @@ m2[i]]

\* lines 57-59
TotalDf(d, ind) ==
    LET m3 == merge(d, ind, "key", NoTotal)
    IN [i \in 1..Len(m3) |->
          [msa_ghg_total |-> FMul(m3[i].msa_ghg_total_per_eur, m3[i].loan_amount),
           msa_lu_total  |-> FMul(m3[i].msa_lu_total_per_eur, m3[i].loan_amount)] @@ m3[i]]

RECURSIVE agg_max(_)
\* the 'max' of groupby(...).agg in place of 'sum'
agg_max(s) ==
    IF s = <<>> THEN F(0)
    ELSE LET t == agg_max(Tail(s))
         IN IF isna(Head(s)) THEN t ELSE IF Head(s)[1] > t[1] THEN Head(s) ELSE t

\* the 'sum' of groupby(...).agg
agg_sum(s) == pd_sum(s)

\* lines 62-67: one row per bank_id of the table
BankFp(t) ==
    [b \in Range(column(t, "bank_id")) |->
        LET grp == SelectSeq(t, LAMBDA r : r.bank_id = b)
            g == agg_sum(column(grp, "msa_ghg_total"))
            l == agg_sum(column(grp, "msa_lu_total"))
        IN [msa_ghg_total |-> g, msa_lu_total |-> l, msa_total |-> FAdd(g, l)]]

\* the whole function on given inputs
compute_bank_biodiversity_footprint(loans, info, direct, L) ==
    IF dot_shape_mismatch(T(L), np_diag(column(direct, "msa_ghg_per_eur")))
    THEN [pc |-> "raised", df |-> DirectDf(loans, info, direct),
          indirect_df |-> <<>>, bank_fp |-> <<>>]
    ELSE LET ind == IndirectDf(direct, L)
             t == TotalDf(DirectDf(loans, info, direct), ind)
         IN [pc |-> "returned", df |-> t, indirect_df |-> ind, bank_fp |-> BankFp(t)]

FootprintOut == compute_bank_biodiversity_footprint(
                    loan_data, firm_info, direct_intensity_vector, leontief_inverse)

FootprintReturn ==
    /\ pc = "call"
    /\ FootprintOut.pc = "returned"
    /\ pc' = "returned"
    /\ df' = FootprintOut.df
    /\ indirect_df' = FootprintOut.indirect_df
    /\ bank_fp' = FootprintOut.bank_fp
    /\ UNCHANGED <<loan_data, firm_info, direct_intensity_vector, leontief_inverse,
                   firms, encore_ds_direct, results>>

\* ValueError out of line 44: nothing is returned
FootprintRaise ==
    /\ pc = "call"
    /\ FootprintOut.pc = "raised"
    /\ pc' = "raised"
    /\ df' = FootprintOut.df
    /\ UNCHANGED <<loan_data, firm_info, direct_intensity_vector, leontief_inverse,
                   indirect_df, bank_fp, firms, encore_ds_direct, results>>

-----------------------------------------------------------------------------
(* Inputs *)

\* duplicate-free sequences of 1 or 2 keys: the row or column labels of a table
Indexes == {<<k>> : k \in SectorKeys}
             \cup {y \in SectorKeys \X SectorKeys : y[1] # y[2]}

DirectTables ==
    UNION {{[i \in 1..Len(idx) |->
               [key |-> idx[i], msa_ghg_per_eur |-> F(v[i][1]), msa_lu_per_eur |-> F(v[i][2])]]
            : v \in [1..Len(idx) -> (0..MaxVal) \X LuValues]}
           : idx \in Indexes}

LeontiefInverses ==
    UNION {{[index |-> rc[1], columns |-> rc[2],
             values |-> [i \in 1..Len(rc[1]) |-> [j \in 1..Len(rc[2]) |-> F(m[i][j])]]]
            : m \in [1..Len(rc[1]) -> [1..Len(rc[2]) -> 0..MaxL]]}
           : rc \in Indexes \X Indexes}

FirmInfo ==
    <<[firm_id |-> "FIRM_0", country |-> "DE", sector |-> "A"],
      [firm_id |-> "FIRM_1", country |-> "FR", sector |-> "B"],
      [firm_id |-> "FIRM_2", country |-> "IT", sector |-> "C"]>>

\* (IT, C) is a key no table holds; FIRM_3 has no row in FirmInfo
LoanFirms == {"FIRM_0", "FIRM_1", "FIRM_2", "FIRM_3"}

Idle == <<>>

\* Propagation: every direct table against every Leontief inverse, one loan book
Init ==
    /\ pc = "call"
    /\ loan_data = <<[bank_id |-> "BANK_0", firm_id |-> "FIRM_0", loan_amount |-> F(1)],
                     [bank_id |-> "BANK_1", firm_id |-> "FIRM_1", loan_amount |-> F(2)]>>
    /\ firm_info = FirmInfo
    /\ direct_intensity_vector \in DirectTables
    /\ leontief_inverse \in LeontiefInverses
    /\ df = Idle /\ indirect_df = Idle /\ bank_fp = Idle
    /\ firms = Idle /\ encore_ds_direct = Idle /\ results = Idle

Next == FootprintReturn \/ FootprintRaise

Spec == Init /\ [][Next]_vars

-----------------------------------------------------------------------------
(* Propagation claims, under Spec *)

keys(t) == Range(column(t, "key"))
pressures == {"ghg", "lu"}
per_eur(p) == IF p = "ghg" THEN "msa_ghg_per_eur" ELSE "msa_lu_per_eur"
total_per_eur(p) == IF p = "ghg" THEN "msa_ghg_total_per_eur" ELSE "msa_lu_total_per_eur"

\* the cell of a table's row labelled k
at(t, k, c) == t[get_loc(column(t, "key"), k)][c]
\* L[r, c] by label
loc(L, r, c) == L.values[get_loc(L.index, r)][get_loc(L.columns, c)]

\* L is square over the key universe of the direct table
SameUniverse(direct, L) ==
    /\ Range(L.index) = keys(direct)
    /\ Range(L.columns) = keys(direct)

RECURSIVE KeyedTotal(_, _, _, _, _)
\* sum over the keys ks of L[k', k] * direct[k'][p], every factor found by label
KeyedTotal(ks, direct, L, k, p) ==
    IF ks = {} THEN 0
    ELSE LET k1 == CHOOSE x \in ks : TRUE
         IN loc(L, k1, k)[1] * at(direct, k1, per_eur(p))[1]
              + KeyedTotal(ks \ {k1}, direct, L, k, p)

\* C1: with L square over the direct table's key universe, the total
\* intensity of every key k and pressure p is the sum over the keys k' of
\* L[k', k] * direct[k'][p], the direct row being the one labelled k',
\* whatever the row order of the two tables.
C1_TotalMatchesKeys ==
    (pc = "returned" /\ SameUniverse(direct_intensity_vector, leontief_inverse)) =>
        \A k \in keys(direct_intensity_vector) : \A p \in pressures :
            at(indirect_df, k, total_per_eur(p)) =
                F(KeyedTotal(keys(direct_intensity_vector), direct_intensity_vector,
                             leontief_inverse, k, p))

\* C2: no table is returned when L is not square or its key universe
\* differs from the direct table's.
C2_MismatchNeverReturns ==
    ~SameUniverse(direct_intensity_vector, leontief_inverse) => pc # "returned"

NonNegative(direct, L) ==
    /\ \A i \in 1..Len(direct) : direct[i].msa_ghg_per_eur[1] >= 0 /\ direct[i].msa_lu_per_eur[1] >= 0
    /\ \A i \in 1..Len(L.index) : \A j \in 1..Len(L.columns) : L.values[i][j][1] >= 0

-----------------------------------------------------------------------------
(* Allocation and aggregation, under SpecAlloc: every loan book against a
   few tables *)

Loans ==
    UNION {[1..n -> [bank_id : banks, firm_id : LoanFirms,
                     loan_amount : {F(a) : a \in Amounts}]]
           : n \in 1..MaxLoans}

DirectOver(idx) ==
    [i \in 1..Len(idx) |-> [key |-> idx[i], msa_ghg_per_eur |-> F(i), msa_lu_per_eur |-> F(1)]]
OnesOver(rows, cols) ==
    [index |-> rows, columns |-> cols,
     values |-> [i \in 1..Len(rows) |-> [j \in 1..Len(cols) |-> F(1)]]]

DE_A == <<"DE", "A">>
FR_B == <<"FR", "B">>

\* <<direct table, Leontief inverse>>: both keys in both tables; (FR, B) in
\* neither; (FR, B) in L alone; a row count that line 44 refuses
AllocTables ==
    {<<DirectOver(<<DE_A, FR_B>>), OnesOver(<<DE_A, FR_B>>, <<DE_A, FR_B>>)>>,
     <<DirectOver(<<DE_A>>), OnesOver(<<DE_A>>, <<DE_A>>)>>,
     <<DirectOver(<<DE_A>>), OnesOver(<<FR_B>>, <<FR_B>>)>>,
     <<DirectOver(<<DE_A, FR_B>>), OnesOver(<<DE_A>>, <<DE_A>>)>>}

InitAlloc ==
    /\ pc = "call"
    /\ loan_data \in Loans
    /\ firm_info = FirmInfo
    /\ \E t \in AllocTables : direct_intensity_vector = t[1] /\ leontief_inverse = t[2]
    /\ df = Idle /\ indirect_df = Idle /\ bank_fp = Idle
    /\ firms = Idle /\ encore_ds_direct = Idle /\ results = Idle

SpecAlloc == InitAlloc /\ [][Next]_vars

impacts == {"msa_ghg_direct", "msa_lu_direct", "msa_ghg_total", "msa_lu_total"}
footprint_columns == {"msa_ghg_total", "msa_lu_total", "msa_total"}

\* C3: an exposure whose counterparty resolves to a key absent from the
\* intensity table has every direct and total impact equal to 0, a defined
\* zero, and is counted in its bank's row of the returned table.
C3_AbsentKeyImpactsZero ==
    pc = "returned" =>
        \A i \in 1..Len(df) :
            (df[i].country # "NaN" /\ df[i].key \notin keys(direct_intensity_vector)) =>
                /\ \A c \in impacts : df[i][c] = F(0)
                /\ df[i].bank_id \in DOMAIN bank_fp

\* C4: no table is returned when an exposure names a firm_id that has no
\* row in firm_info.
C4_UnknownCounterpartyNeverReturns ==
    (\E i \in 1..Len(loan_data) : loan_data[i].firm_id \notin Range(column(firm_info, "firm_id")))
        => pc # "returned"

RECURSIVE Pick(_, _)
\* the rows of s at the positions S, in order
Pick(s, S) ==
    IF s = <<>> THEN <<>>
    ELSE (IF 1 \in S THEN <<Head(s)>> ELSE <<>>)
            \o Pick(Tail(s), {i - 1 : i \in S \ {1}})

Footprint(loans) ==
    compute_bank_biodiversity_footprint(
        loans, firm_info, direct_intensity_vector, leontief_inverse).bank_fp

\* a bank's footprint cell, 0 for a bank without a row
Val(fp, b, c) == IF b \in DOMAIN fp THEN fp[b][c][1] ELSE 0

Orders(n) == {p \in [1..n -> 1..n] : \A i, j \in 1..n : p[i] = p[j] => i = j}

\* C5: split the loan book into any two disjoint parts A and B: for every
\* bank and every column (ghg, land use, grand total) the footprint of the
\* whole book is the footprint of A plus the footprint of B, a bank without
\* a row counting as 0; and listing the loans in another order returns the
\* same table.
C5_Additivity ==
    pc = "returned" =>
        /\ \A S \in SUBSET (1..Len(loan_data)) :
              LET fa == Footprint(Pick(loan_data, S))
                  fb == Footprint(Pick(loan_data, (1..Len(loan_data)) \ S))
              IN /\ DOMAIN bank_fp = DOMAIN fa \cup DOMAIN fb
                 /\ \A b \in banks : \A c \in footprint_columns :
                       Val(bank_fp, b, c) = Val(fa, b, c) + Val(fb, b, c)
        /\ \A p \in Orders(Len(loan_data)) :
              Footprint([i \in 1..Len(loan_data) |-> loan_data[p[i]]]) = bank_fp

\* a bank with two loans that each carry a positive footprint, in a book
\* that also holds a loan whose impact is missing
C5_Witness ==
    /\ pc = "returned"
    /\ \E i, j \in 1..Len(df) :
          /\ i # j
          /\ df[i].bank_id = df[j].bank_id
          /\ ~isna(df[i].msa_ghg_total) /\ df[i].msa_ghg_total[1] > 0
          /\ ~isna(df[j].msa_lu_total) /\ df[j].msa_lu_total[1] > 0
          /\ bank_fp[df[i].bank_id].msa_total[1]
                >= df[i].msa_ghg_total[1] + df[j].msa_ghg_total[1] + 2

-----------------------------------------------------------------------------
(* Exact fractions <<num, den>>, den > 0, in lowest terms *)

RECURSIVE gcd(_, _)
gcd(a, b) == IF b = 0 THEN a ELSE gcd(b, a % b)
abs(n) == IF n < 0 THEN -n ELSE n
Q(n, d) ==
    LET g == gcd(abs(n), abs(d))
        sgn == IF d < 0 THEN -1 ELSE 1
    IN <<(sgn * n) \div g, (sgn * d) \div g>>
QAdd(a, b) == Q(a[1] * b[2] + b[1] * a[2], a[2] * b[2])
QSub(a, b) == Q(a[1] * b[2] - b[1] * a[2], a[2] * b[2])
QMul(a, b) == Q(a[1] * b[1], a[2] * b[2])
QDiv(a, b) == Q(a[1] * b[2], a[2] * b[1])
QLe(a, b) == a[1] * b[2] <= b[1] * a[2]
Zero == <<0, 1>>
One == <<1, 1>>

RECURSIVE QSum(_)
QSum(s) == IF s = <<>> THEN Zero ELSE QAdd(Head(s), QSum(Tail(s)))

-----------------------------------------------------------------------------
(* compute_dependencies *)

es_services == {"pollination", "flood_protection"}
zeros == [es \in es_services |-> Zero]

\* line 34-36: the row labelled (c, j), or zeros on KeyError
ds_direct(encore, key) ==
    IF key \in keys(encore) THEN at(encore, key, "score") ELSE zeros

\* the else branch giving every supplier the same weight
uniform_weights(row_L) ==
    LET row_sum == QSum(row_L)
    IN IF row_sum[1] > 0 THEN [i \in 1..Len(row_L) |-> QDiv(row_L[i], row_sum)]
       ELSE [i \in 1..Len(row_L) |-> Q(1, Len(row_L))]

\* lines 42-47
weights(row_L) ==
    LET row_sum == QSum(row_L)
    IN IF row_sum[1] > 0 THEN [i \in 1..Len(row_L) |-> QDiv(row_L[i], row_sum)]
       ELSE [i \in 1..Len(row_L) |-> Zero]

\* DataFrame.mul(array, axis=0) refuses an array that is not one value per row
mul_length_mismatch(encore, w) == Len(encore) # Len(w)

\* line 50: row i of the table times w[i], by position, summed per service
mul_sum(encore, w) ==
    [es \in es_services |-> QSum([i \in 1..Len(encore) |-> QMul(w[i], encore[i].score[es])])]

\* lines 39-52 raise ValueError for this key
raises(encore, L, key) ==
    /\ key \in Range(L.index)
    /\ mul_length_mismatch(encore, weights(L.values[get_loc(L.index, key)]))

\* lines 39-52 when nothing is raised
indirect_score(encore, L, key) ==
    IF key \in Range(L.index)
    THEN mul_sum(encore, weights(L.values[get_loc(L.index, key)]))
    ELSE zeros

\* direct + indirect, the factor (1 - direct) left out
additive_total(d, i) == QAdd(d, i)

\* line 55, per service
total_score(d, i) == QAdd(d, QMul(QSub(One, d), i))

\* lines 30-60
firm_row(encore, L, c, j) ==
    LET d == ds_direct(encore, <<c, j>>)
        i == indirect_score(encore, L, <<c, j>>)
    IN [country |-> c, sector |-> j, direct |-> d, indirect |-> i,
        total |-> [es \in es_services |-> total_score(d[es], i[es])]]

firm_keys(fs) == [n \in 1..Len(fs) |-> <<fs[n].country, fs[n].sector>>]

\* the firms whose turn in the loop raises
raising(fs, encore, L) == {n \in 1..Len(fs) : raises(encore, L, firm_keys(fs)[n])}

DependenciesReturn ==
    /\ pc = "call"
    /\ raising(firms, encore_ds_direct, leontief_inverse) = {}
    /\ pc' = "returned"
    /\ results' = [n \in 1..Len(firms) |->
                     firm_row(encore_ds_direct, leontief_inverse, firms[n].country, firms[n].sector)]
    /\ UNCHANGED <<loan_data, firm_info, direct_intensity_vector, leontief_inverse,
                   df, indirect_df, bank_fp, firms, encore_ds_direct>>

\* ValueError out of line 50 at the first firm that meets it: results holds
\* the rows appended before, and nothing is returned
DependenciesRaise ==
    /\ pc = "call"
    /\ raising(firms, encore_ds_direct, leontief_inverse) # {}
    /\ LET first == CHOOSE n \in raising(firms, encore_ds_direct, leontief_inverse) :
                       \A m \in raising(firms, encore_ds_direct, leontief_inverse) : n <= m
       IN results' = [n \in 1..(first - 1) |->
                        firm_row(encore_ds_direct, leontief_inverse, firms[n].country, firms[n].sector)]
    /\ pc' = "raised"
    /\ UNCHANGED <<loan_data, firm_info, direct_intensity_vector, leontief_inverse,
                   df, indirect_df, bank_fp, firms, encore_ds_direct>>

NextDep == DependenciesReturn \/ DependenciesRaise

\* the scores of one table row: <<pollination, flood_protection>>
ScoreRows == {<<Zero, One>>, <<Q(1, 2), Q(3, 2)>>, <<One, Q(1, 2)>>}

DependencyTables ==
    UNION {{[i \in 1..Len(idx) |->
               [key |-> idx[i],
                score |-> [es \in es_services |->
                             IF es = "pollination" THEN v[i][1] ELSE v[i][2]]]]
            : v \in [1..Len(idx) -> ScoreRows]}
           : idx \in Indexes}

DependencyLeontiefInverses ==
    UNION {{[index |-> rc[1], columns |-> rc[2],
             values |-> [i \in 1..Len(rc[1]) |-> [j \in 1..Len(rc[2]) |-> Q(m[i][j], 1)]]]
            : m \in [1..Len(rc[1]) -> [1..Len(rc[2]) -> 0..MaxL]]}
           : rc \in Indexes \X Indexes}

\* one to MaxFirms of the firms of FirmInfo, in its order
Firms == {Pick(FirmInfo, S) : S \in {X \in SUBSET (1..Len(FirmInfo)) : Cardinality(X) \in 1..MaxFirms}}

InitDep ==
    /\ pc = "call"
    /\ firms \in Firms
    /\ encore_ds_direct \in DependencyTables
    /\ leontief_inverse \in DependencyLeontiefInverses
    /\ results = Idle
    /\ loan_data = Idle /\ firm_info = Idle /\ direct_intensity_vector = Idle
    /\ df = Idle /\ indirect_df = Idle /\ bank_fp = Idle

SpecDep == InitDep /\ [][NextDep]_vars

-----------------------------------------------------------------------------
(* Dependency claims, under SpecDep *)

row_of(L, key) == L.values[get_loc(L.index, key)]

RECURSIVE KeyedAverage(_, _, _, _, _)
\* sum over the keys ks of (L[key, k'] / row sum) * encore[k'][es], every
\* factor found by label
KeyedAverage(ks, encore, L, key, es) ==
    IF ks = {} THEN Zero
    ELSE LET k1 == CHOOSE x \in ks : TRUE
         IN QAdd(QMul(QDiv(loc(L, key, k1), QSum(row_of(L, key))), at(encore, k1, "score")[es]),
                 KeyedAverage(ks \ {k1}, encore, L, key, es))

\* C6: for a firm whose key is a row of L with positive row sum, the
\* indirect score of every service is the sum over the upstream keys k' of
\* (L[(c,j), k'] / row sum) * direct_dep_table[k'][s], the weight of column
\* k' meeting the table row labelled k'.
C6_IndirectMatchesKeys ==
    (pc = "returned" /\ Range(leontief_inverse.columns) = keys(encore_ds_direct)) =>
        \A n \in 1..Len(results) :
            LET key == firm_keys(firms)[n]
            IN (key \in Range(leontief_inverse.index)
                    /\ QSum(row_of(leontief_inverse, key))[1] > 0) =>
                  \A es \in es_services :
                      results[n].indirect[es] =
                          KeyedAverage(keys(encore_ds_direct), encore_ds_direct,
                                       leontief_inverse, key, es)

\* C7: a key absent from either table never makes the function raise: the
\* firm whose turn raises has its key in both tables; and on return every
\* firm has a row, with zero direct scores when its key is absent from the
\* direct table and zero indirect scores when it is absent from L.
C7_AbsentKeyNeverRaises ==
    /\ pc = "raised" =>
          LET key == firm_keys(firms)[Len(results) + 1]
          IN key \in keys(encore_ds_direct) /\ key \in Range(leontief_inverse.index)
    /\ pc = "returned" =>
          /\ Len(results) = Len(firms)
          /\ \A n \in 1..Len(firms) :
                LET key == firm_keys(firms)[n]
                IN /\ key \notin keys(encore_ds_direct) => results[n].direct = zeros
                   /\ key \notin Range(leontief_inverse.index) => results[n].indirect = zeros

ZeroRow(L, key) ==
    /\ key \in Range(L.index)
    /\ \A j \in 1..Len(L.columns) : row_of(L, key)[j] = Zero

\* C8: in every returned row of a firm whose row of L is entirely zero, the
\* indirect score of every service is exactly 0 and the total score equals
\* the direct score.
C8_ZeroGuard ==
    pc = "returned" =>
        \A n \in 1..Len(results) :
            ZeroRow(leontief_inverse, firm_keys(firms)[n]) =>
                \A es \in es_services :
                    /\ results[n].indirect[es] = Zero
                    /\ results[n].total[es] = results[n].direct[es]

\* a returned row of a zero-row firm with a positive direct score, over a
\* table with positive scores in every row
C8_Witness ==
    /\ pc = "returned"
    /\ \E n \in 1..Len(results) :
          /\ ZeroRow(leontief_inverse, firm_keys(firms)[n])
          /\ results[n].direct["pollination"] = Q(1, 2)
          /\ results[n].total["pollination"] = Q(1, 2)
    /\ Len(leontief_inverse.columns) = 2

InUnit(q) == QLe(Zero, q) /\ QLe(q, One)

\* C9: in every returned row and for every service, direct and indirect
\* scores in [0, 1] give a total score in [0, 1].
C9_TotalInUnitInterval ==
    pc = "returned" =>
        \A n \in 1..Len(results) : \A es \in es_services :
            (InUnit(results[n].direct[es]) /\ InUnit(results[n].indirect[es])) =>
                InUnit(results[n].total[es])

\* a returned row with direct = indirect = 1/2 and total = 3/4, and one
\* whose direct score lies outside [0, 1]
C9_Witness ==
    /\ pc = "returned"
    /\ \E n \in 1..Len(results) :
          /\ results[n].direct["pollination"] = Q(1, 2)
          /\ results[n].indirect["pollination"] = Q(1, 2)
          /\ results[n].total["pollination"] = Q(3, 4)
          /\ ~InUnit(results[n].direct["flood_protection"])

====
